---- MODULE Spec2Model ----
(***************************************************************************)
(* Model of the icor codec (src/index.js): compileIco, compileIcns,        *)
(* parseIco, parseIcns and the shared validateImages.                      *)
(*                                                                         *)
(* A Buffer is a sequence of bytes (0..255); Buffer offsets are 0-based in *)
(* the source and are kept 0-based here, so byte `off` of buffer b is      *)
(* b[off + 1].  A JavaScript string is the sequence of its char codes.     *)
(* An image object is a record whose field `has` is the set of property    *)
(* names the object carries and `isBuffer` says whether its data is a      *)
(* Buffer.  maxLength is buffer.constants.MAX_LENGTH of the Node.js build  *)
(* the program runs on; it is fixed for the whole run.                     *)
(***************************************************************************)
EXTENDS Integers, Sequences, FiniteSets, TLC

VARIABLES maxLength, pc, fmt, round, images, encoded, buffer, totalSize,
          offset, parsed, iters, decoded

vars == <<maxLength, pc, fmt, round, images, encoded, buffer, totalSize,
          offset, parsed, iters, decoded>>

\* ---------------------------------------------------------------- bounds
MaxImages == 2
MaxData == 2

\* ------------------------------------------------------- generic helpers
Min(S) == CHOOSE x \in S : \A y \in S : x <= y

RECURSIVE Concat(_)
Concat(ss) == IF ss = <<>> THEN <<>> ELSE Head(ss) \o Concat(Tail(ss))

RECURSIVE SumLen(_)
SumLen(ss) == IF ss = <<>> THEN 0 ELSE Len(Head(ss)) + SumLen(Tail(ss))

SeqsUpTo(S, n) == UNION {[1..k -> S] : k \in 0..n}

\* ------------------------------------------------ Buffer reads and writes
\* buffer.readUInt8(off)
readUInt8(b, off) == b[off + 1]
\* mutant: the two bytes read in big-endian order
readUInt16LE_BigEndian(b, off) == 256 * b[off + 1] + b[off + 2]
\* buffer.readUInt16LE(off)
readUInt16LE(b, off) == b[off + 1] + 256 * b[off + 2]
\* buffer.readUInt32LE(off)
readUInt32LE(b, off) ==
  b[off + 1] + 256 * b[off + 2] + 65536 * b[off + 3] + 16777216 * b[off + 4]
\* buffer.readUInt32BE(off)
readUInt32BE(b, off) ==
  16777216 * b[off + 1] + 65536 * b[off + 2] + 256 * b[off + 3] + b[off + 4]
\* writeUInt8(v) throws a RangeError unless 0 <= v <= 255, writeUInt16LE(v)
\* unless 0 <= v <= 65535, writeUInt32LE(v) and writeUInt32BE(v) unless
\* 0 <= v <= 4294967295 (written as a bound on the high 16 bits)
UInt8InRange(v) == v >= 0 /\ v <= 255
UInt16InRange(v) == v >= 0 /\ v <= 65535
UInt32InRange(v) == v >= 0 /\ v \div 65536 <= 65535
\* what a write gives for a value out of range: nothing is written, the call
\* throws ERR_OUT_OF_RANGE
OutOfRange == "ERR_OUT_OF_RANGE"
\* the bytes written by writeUInt16LE(v), writeUInt32LE(v), writeUInt32BE(v)
writeUInt16LE(v) ==
  IF UInt16InRange(v) THEN <<v % 256, (v \div 256) % 256>> ELSE OutOfRange
writeUInt32LE(v) ==
  IF UInt32InRange(v)
  THEN <<v % 256, (v \div 256) % 256, (v \div 65536) % 256,
         (v \div 16777216) % 256>>
  ELSE OutOfRange
writeUInt32BE(v) ==
  IF UInt32InRange(v)
  THEN <<(v \div 16777216) % 256, (v \div 65536) % 256, (v \div 256) % 256,
         v % 256>>
  ELSE OutOfRange
\* buffer.constants.MAX_LENGTH, the largest Buffer the runtime allocates, is
\* fixed by the Node.js build: 2^30 - 1 on 32-bit builds, 2^31 - 1, 2^32 or
\* 2^53 - 1 on 64-bit builds.  A length limit is the pair <<q, r>> standing
\* for q * 2^24 + r.
MaxLengths ==
  {<<63, 16777215>>, <<127, 16777215>>, <<256, 0>>, <<536870911, 16777215>>}
\* Buffer.alloc(size) and Buffer.concat(list) throw a RangeError unless
\* 0 <= size <= MAX_LENGTH
AllocInRange(size, limit) ==
  /\ size >= 0
  /\ \/ size \div 16777216 < limit[1]
     \/ size \div 16777216 = limit[1] /\ size % 16777216 <= limit[2]
Clamp(x, n) == IF x < 0 THEN 0 ELSE IF x > n THEN n ELSE x
subarray(b, start, end) ==
  LET s == Clamp(start, Len(b))
      e == Clamp(end, Len(b))
  IN IF e <= s THEN <<>> ELSE SubSeq(b, s + 1, e)
\* buffer.toString("ascii", start, end): the ascii decoder clears the high
\* bit of every byte
toStringAscii(b, start, end) ==
  LET s == subarray(b, start, end) IN [k \in 1..Len(s) |-> s[k] % 128]

\* ----------------------------------------------------------- result values
NoField == "-"
Ok(buf) == [err |-> "none", index |-> 0, field |-> NoField, buf |-> buf]
Err(kind, index, field) ==
  [err |-> kind, index |-> index, field |-> field, buf |-> <<>>]
NoResult == [err |-> "pending", index |-> 0, field |-> NoField, buf |-> <<>>]

\* ------------------------------------------------------------ validateImages
\* mutant: the Buffer check made before the required-property check
ImageError_BufferFirst(img, index, requiredProps) ==
  LET miss == {k \in 1..Len(requiredProps) : requiredProps[k] \notin img.has}
  IN IF ~img.isBuffer THEN Err("InvalidDataType", index, "data")
     ELSE IF miss # {} THEN Err("MissingField", index, requiredProps[Min(miss)])
     ELSE Ok(<<>>)

\* the error thrown for one image of the forEach, or "none"
ImageError(img, index, requiredProps) ==
  LET miss == {k \in 1..Len(requiredProps) : requiredProps[k] \notin img.has}
  IN IF miss # {} THEN Err("MissingField", index, requiredProps[Min(miss)])
     ELSE IF ~img.isBuffer THEN Err("InvalidDataType", index, "data")
     ELSE Ok(<<>>)

validateImages(imgs, requiredProps) ==
  IF Len(imgs) = 0 THEN Err("EmptyInput", 0, NoField)
  ELSE LET bad == {i \in 1..Len(imgs) :
                     ImageError(imgs[i], i - 1, requiredProps).err # "none"}
       IN IF bad = {} THEN Ok(<<>>)
          ELSE ImageError(imgs[Min(bad)], Min(bad) - 1, requiredProps)

\* ----------------------------------------------------------------- compileIco
headerSize == 6
directoryEntrySize == 16

\* mutant: only 256 is stored as 0
DimByte_Only256(d) == IF d = 256 THEN 0 ELSE d

\* img.width === 256 || img.width === 512 ? 0 : img.width
DimByte(d) == IF d = 256 \/ d = 512 THEN 0 ELSE d

\* running data offset of image i (1-based): headerSize + directoriesSize +
\* the data lengths of the images before it
IcoDataOffset(imgs, i) ==
  headerSize + Len(imgs) * directoryEntrySize
    + SumLen([k \in 1..(i - 1) |-> imgs[k].data])

IcoDirectoryEntry(imgs, i) ==
  <<DimByte(imgs[i].width), DimByte(imgs[i].height), 0, 0>>
    \o writeUInt16LE(1) \o writeUInt16LE(32)
    \o writeUInt32LE(Len(imgs[i].data))
    \o writeUInt32LE(IcoDataOffset(imgs, i))

\* the first write of image i's directory entry that is out of range, or
\* NoField: width, height, data size, data offset, in the order written
IcoEntryRangeError(imgs, i) ==
  IF ~UInt8InRange(DimByte(imgs[i].width)) THEN "width"
  ELSE IF ~UInt8InRange(DimByte(imgs[i].height)) THEN "height"
  ELSE IF ~UInt32InRange(Len(imgs[i].data)) THEN "data.length"
  ELSE IF ~UInt32InRange(IcoDataOffset(imgs, i)) THEN "dataOffset"
  ELSE NoField

\* headerSize + directoriesSize + totalImageSize
IcoTotalSize(imgs) ==
  headerSize + Len(imgs) * directoryEntrySize
    + SumLen([k \in 1..Len(imgs) |-> imgs[k].data])

\* compileIco(images) on a runtime whose MAX_LENGTH is limit
compileIco(imgs, limit) ==
  LET v == validateImages(imgs, <<"width", "height", "data">>)
      range == {i \in 1..Len(imgs) : IcoEntryRangeError(imgs, i) # NoField}
  IN IF v.err # "none" THEN v
     ELSE IF ~AllocInRange(IcoTotalSize(imgs), limit)
       THEN Err("RangeError", 0, "totalSize")
     ELSE IF ~UInt16InRange(Len(imgs))
       THEN Err("RangeError", 0, "images.length")
     ELSE IF range # {}
       THEN Err("RangeError", Min(range) - 1,
                IcoEntryRangeError(imgs, Min(range)))
     ELSE Ok(writeUInt16LE(0) \o writeUInt16LE(1) \o writeUInt16LE(Len(imgs))
             \o Concat([i \in 1..Len(imgs) |-> IcoDirectoryEntry(imgs, i)])
             \o Concat([i \in 1..Len(imgs) |-> imgs[i].data]))

\* ------------------------------------------------------------------- parseIco
IcoEntry(b, i) ==
  LET entryOffset == headerSize + i * directoryEntrySize
      w == readUInt8(b, entryOffset)
      h == readUInt8(b, entryOffset + 1)
  IN [width |-> IF w = 0 THEN 256 ELSE w,
      height |-> IF h = 0 THEN 256 ELSE h,
      colorPalette |-> readUInt8(b, entryOffset + 2),
      reserved |-> readUInt8(b, entryOffset + 3),
      colorPlanes |-> readUInt16LE(b, entryOffset + 4),
      bpp |-> readUInt16LE(b, entryOffset + 6),
      dataSize |-> readUInt32LE(b, entryOffset + 8),
      dataOffset |-> readUInt32LE(b, entryOffset + 12)]

\* mutant: the view ends one byte early
IcoImage_ShortView(b, entry) ==
  [width |-> entry.width, height |-> entry.height, bpp |-> entry.bpp,
   dataSize |-> entry.dataSize,
   data |-> subarray(b, entry.dataOffset,
                     entry.dataOffset + entry.dataSize - 1),
   dataStart |-> entry.dataOffset,
   dataEnd |-> entry.dataOffset + entry.dataSize - 1]

IcoImage(b, entry) ==
  [width |-> entry.width, height |-> entry.height, bpp |-> entry.bpp,
   dataSize |-> entry.dataSize,
   data |-> subarray(b, entry.dataOffset, entry.dataOffset + entry.dataSize),
   dataStart |-> entry.dataOffset,
   dataEnd |-> entry.dataOffset + entry.dataSize]

DecOk(imgs) == [err |-> "none", images |-> imgs]
DecErr(kind) == [err |-> kind, images |-> <<>>]
NoDecoded == [err |-> "pending", images |-> <<>>]

parseIco(b) ==
  IF Len(b) < 6 THEN DecErr("HeaderTooSmall")
  ELSE IF readUInt16LE(b, 0) # 0 THEN DecErr("InvalidReservedField")
  ELSE IF readUInt16LE(b, 2) # 1 THEN DecErr("InvalidImageType")
  ELSE LET numImages == readUInt16LE(b, 4) IN
    IF numImages = 0 THEN DecErr("NoImages")
    ELSE IF Len(b) < headerSize + numImages * directoryEntrySize
      THEN DecErr("DirectoryTruncated")
    ELSE LET directoryEntries == [i \in 1..numImages |-> IcoEntry(b, i - 1)]
         IN IF \E i \in 1..numImages :
                 directoryEntries[i].dataOffset + directoryEntries[i].dataSize
                   > Len(b)
            THEN DecErr("ImageDataOutOfBounds")
            ELSE DecOk([i \in 1..numImages |-> IcoImage(b, directoryEntries[i])])

\* getImage(width, height) of parseIco's result; NotFound stands for null
NotFound == <<-1>>
\* mutant: the last matching image instead of the first
getImageIco_Last(imgs, width, height) ==
  LET hit == {i \in 1..Len(imgs) :
                imgs[i].width = width /\ imgs[i].height = height}
  IN IF hit = {} THEN NotFound
     ELSE imgs[CHOOSE i \in hit : \A j \in hit : j <= i].data
getImageIco(imgs, width, height) ==
  LET hit == {i \in 1..Len(imgs) :
                imgs[i].width = width /\ imgs[i].height = height}
  IN IF hit = {} THEN NotFound ELSE imgs[Min(hit)].data

\* getInfo() of parseIco's result
getInfoIco(imgs) ==
  [i \in 1..Len(imgs) |->
     [width |-> imgs[i].width, height |-> imgs[i].height, bpp |-> imgs[i].bpp,
      dataSize |-> Len(imgs[i].data)]]

\* ---------------------------------------------------------------- compileIcns
\* char codes of the four-character tags
icns == <<105, 99, 110, 115>>
icp3 == <<105, 99, 112, 51>>
icp4 == <<105, 99, 112, 52>>
icp6 == <<105, 99, 112, 54>>
ic07 == <<105, 99, 48, 55>>
ic08 == <<105, 99, 48, 56>>
ic09 == <<105, 99, 48, 57>>
ic10 == <<105, 99, 49, 48>>

sizeToType ==
  (16 :> icp3) @@ (32 :> icp4) @@ (64 :> icp6) @@ (128 :> ic07)
    @@ (256 :> ic08) @@ (512 :> ic09) @@ (1024 :> ic10)

\* img.size is used as a property key of the sizeToType object.  A key that
\* is not a number of the table can still name a property the object inherits
\* from Object.prototype; the key "constructor" is modelled as the number -2.
\* sizeToType["constructor"] is the function Object.
constructorKey == -2
InheritedKeys == {constructorKey}

\* sizeToType[size] is truthy: a tag of the table or an inherited property
HasSizeToType(size) == size \in DOMAIN sizeToType \/ size \in InheritedKeys
\* sizeToType[size] is a string
TypeIsString(size) == size \in DOMAIN sizeToType

\* images.filter((img) => sizeToType[img.size] && img.data.length > 0)
IsValidIcnsImage(img) == HasSizeToType(img.size) /\ Len(img.data) > 0
validImages(imgs) == SelectSeq(imgs, IsValidIcnsImage)

\* mutant: the length field leaves out the 8 bytes of the chunk header
IcnsChunk_PayloadLength(img) ==
  sizeToType[img.size] \o writeUInt32BE(Len(img.data)) \o img.data

\* Buffer.concat([header, length, img.data])
IcnsChunk(img) ==
  sizeToType[img.size] \o writeUInt32BE(Len(img.data) + 8) \o img.data

\* what building the chunk of img throws, in the order of the callback's
\* statements: Buffer.from(type, "ascii") throws a TypeError when type is not
\* a string, writeUInt32BE a RangeError when the length does not fit 32 bits,
\* Buffer.concat a RangeError when the chunk is longer than limit
IcnsChunkThrows(img, limit) ==
  IF ~TypeIsString(img.size) THEN "TypeError"
  ELSE IF \/ ~UInt32InRange(Len(img.data) + 8)
          \/ ~AllocInRange(Len(img.data) + 8, limit)
    THEN "RangeError"
  ELSE "none"

\* compileIcns(images) on a runtime whose MAX_LENGTH is limit
compileIcns(imgs, limit) ==
  LET v == validateImages(imgs, <<"size", "data">>) IN
  IF v.err # "none" THEN v
  ELSE LET valid == validImages(imgs)
           chunks == [i \in 1..Len(valid) |-> IcnsChunk(valid[i])]
           failing == {i \in 1..Len(valid) :
                         IcnsChunkThrows(valid[i], limit) # "none"}
       IN IF Len(valid) = 0 THEN Err("NoValidImages", 0, NoField)
          ELSE IF failing # {}
            THEN Err(IcnsChunkThrows(valid[Min(failing)], limit),
                     Min(failing) - 1,
                     IF TypeIsString(valid[Min(failing)].size)
                     THEN "data.length" ELSE "size")
          ELSE IF \/ ~UInt32InRange(8 + SumLen(chunks))
                  \/ ~AllocInRange(8 + SumLen(chunks), limit)
            THEN Err("RangeError", 0, "totalSize")
          ELSE Ok(icns \o writeUInt32BE(8 + SumLen(chunks)) \o Concat(chunks))

\* ------------------------------------------------------------------ parseIcns
typeToSize ==
  (icp3 :> 16) @@ (icp4 :> 32) @@ (icp6 :> 64) @@ (ic07 :> 128)
    @@ (ic08 :> 256) @@ (ic09 :> 512) @@ (ic10 :> 1024)

\* the value of `typeToSize[type] || null`; null is modelled as -1
null == -1
TypeSize(type) == IF type \in DOMAIN typeToSize THEN typeToSize[type] ELSE null

\* the header checks of parseIcns: the error they throw, or "none"
IcnsHeaderError(b) ==
  IF Len(b) < 8 THEN "HeaderTooSmall"
  ELSE IF toStringAscii(b, 0, 4) # icns THEN "InvalidMagic"
  ELSE IF readUInt32BE(b, 4) > Len(b) THEN "DeclaredSizeExceedsBuffer"
  ELSE "none"

\* mutant: no check of the chunk's end against the buffer length
IcnsChunkError_NoBounds(b, off) ==
  IF off + 8 > Len(b) THEN "ChunkHeaderTruncated"
  ELSE IF readUInt32BE(b, off + 4) < 8 THEN "InvalidChunkLength"
  ELSE "none"

\* mutant: no check of the minimum chunk length
IcnsChunkError_NoMinLength(b, off) ==
  IF off + 8 > Len(b) THEN "ChunkHeaderTruncated"
  ELSE IF off + readUInt32BE(b, off + 4) > Len(b) THEN "ChunkDataOutOfBounds"
  ELSE "none"

\* the checks of one iteration of the chunk loop at offset off
IcnsChunkError(b, off) ==
  IF off + 8 > Len(b) THEN "ChunkHeaderTruncated"
  ELSE IF readUInt32BE(b, off + 4) < 8 THEN "InvalidChunkLength"
  ELSE IF off + readUInt32BE(b, off + 4) > Len(b) THEN "ChunkDataOutOfBounds"
  ELSE "none"

\* the image pushed by one successful iteration
IcnsImage(b, off) ==
  LET type == toStringAscii(b, off, off + 4)
      chunkLength == readUInt32BE(b, off + 4)
  IN [type |-> type, size |-> TypeSize(type),
      data |-> subarray(b, off + 8, off + chunkLength),
      dataStart |-> off + 8, dataEnd |-> off + chunkLength]

\* getImage(size) and getInfo() of parseIcns's result
getImageIcns(imgs, size) ==
  LET hit == {i \in 1..Len(imgs) : imgs[i].size = size}
  IN IF hit = {} THEN NotFound ELSE imgs[Min(hit)].data

getInfoIcns(imgs) ==
  [i \in 1..Len(imgs) |->
     [type |-> imgs[i].type, size |-> imgs[i].size,
      dataSize |-> Len(imgs[i].data)]]

\* --------------------------------------------------------------------- inputs
\* payloads: the first n bytes of a fixed byte pattern, n up to MaxData
PayloadPattern == <<7, 200, 33, 7, 200, 33>>
Payloads == {SubSeq(PayloadPattern, 1, n) : n \in 0..MaxData}

Image(has, width, height, size, data, isBuffer) ==
  [has |-> has, width |-> width, height |-> height, size |-> size,
   data |-> data, isBuffer |-> isBuffer]

\* ICO descriptors {width, height, data}
IcoDims == {<<1, 16>>, <<255, 255>>, <<256, 256>>, <<512, 16>>, <<16, 512>>,
            <<257, 16>>, <<16, 511>>, <<300, 300>>}
IcoImages ==
  {Image({"width", "height", "data"}, d[1], d[2], 0, p, TRUE) :
     d \in IcoDims, p \in Payloads}

\* ICNS descriptors {size, data}
IcnsSizes == {16, 32, 64, 128, 256, 512, 1024, 999, constructorKey}
IcnsImages ==
  {Image({"size", "data"}, 0, 0, s, p, TRUE) : s \in IcnsSizes, p \in Payloads}

\* objects with any subset of the properties, data a Buffer or not
LooseImages ==
  {Image(h, 64, 64, 32, IF "data" \in h /\ isB THEN <<7>> ELSE <<>>,
         "data" \in h /\ isB) :
     h \in SUBSET {"width", "height", "size", "data"}, isB \in BOOLEAN}

IcoInputs == SeqsUpTo(IcoImages, MaxImages) \cup SeqsUpTo(LooseImages, MaxImages)
IcnsInputs == SeqsUpTo(IcnsImages, MaxImages) \cup SeqsUpTo(LooseImages, MaxImages)

\* first n bytes of b
Truncate(b, n) == subarray(b, 0, n)

\* hand-made ICO files: a header, directory entries whose data offset is the
\* end of the directory plus delta, two payload bytes, cut short or not
RawIcoEntries ==
  {[w |-> 0, dataSize |-> 0, delta |-> 0], [w |-> 16, dataSize |-> 2, delta |-> 0],
   [w |-> 16, dataSize |-> 2, delta |-> 1], [w |-> 255, dataSize |-> 1, delta |-> 1]}
RawIcoEntryBytes(e, dirEnd) ==
  <<e.w, e.w, 0, 0>> \o writeUInt16LE(1) \o writeUInt16LE(32)
    \o writeUInt32LE(e.dataSize) \o writeUInt32LE(dirEnd + e.delta)
RawIco(reserved, type, count, entries) ==
  writeUInt16LE(reserved) \o writeUInt16LE(type) \o writeUInt16LE(count)
    \o Concat([i \in 1..Len(entries) |->
                 RawIcoEntryBytes(entries[i], 6 + 16 * Len(entries))])
    \o <<7, 200>>
IcoBuffers ==
  UNION {
    LET raw == RawIco(ht[1], ht[2], c, es)
    IN {raw, Truncate(raw, Len(raw) - 1), Truncate(raw, 3), Truncate(raw, 5)} :
      ht \in {<<0, 1>>, <<1, 1>>, <<0, 2>>, <<256, 1>>, <<256, 0>>},
      c \in 0..(MaxImages + 1),
      es \in SeqsUpTo(RawIcoEntries, MaxImages)}

\* hand-made ICNS files: a magic, a declared total size, chunks whose length
\* field is the true chunk length plus delta (or `fixed` when >= 0), trailing
\* bytes, cut short or not
icnsHigh == <<233, 99, 110, 115>>
icp3High == <<233, 99, 112, 51>>
RawIcnsChunks ==
  {[tag |-> icp4, data |-> <<7>>, delta |-> 0, fixed |-> -1],
   [tag |-> ic08, data |-> <<>>, delta |-> 0, fixed |-> -1],
   [tag |-> icp3High, data |-> <<200>>, delta |-> 0, fixed |-> -1],
   [tag |-> <<97, 98, 99, 100>>, data |-> <<7, 200>>, delta |-> 0, fixed |-> -1],
   [tag |-> ic10, data |-> <<>>, delta |-> 0, fixed |-> 7],
   [tag |-> icp6, data |-> <<7>>, delta |-> 1, fixed |-> -1]}
RawIcnsChunkBytes(c) ==
  c.tag
    \o writeUInt32BE(IF c.fixed >= 0 THEN c.fixed ELSE 8 + Len(c.data) + c.delta)
    \o c.data
RawIcnsBody(chunks) ==
  Concat([i \in 1..Len(chunks) |-> RawIcnsChunkBytes(chunks[i])])
IcnsBuffers ==
  UNION {
    LET body == RawIcnsBody(cs)
        actual == 8 + Len(body)
    IN UNION {
         LET raw == magic \o writeUInt32BE(ts) \o body \o extra
         IN {raw, Truncate(raw, Len(raw) - 1), Truncate(raw, 7)} :
           ts \in {0, 8, actual - 1, actual, actual + 1},
           extra \in {<<>>, <<0, 0, 0>>}} :
      magic \in {icns, icnsHigh, <<65, 66, 67, 68>>},
      cs \in SeqsUpTo(RawIcnsChunks, MaxImages)}

\* the descriptors a caller builds from a decoder's result to encode it again
IcoDescriptors(imgs) ==
  [i \in 1..Len(imgs) |->
     Image({"width", "height", "data"}, imgs[i].width, imgs[i].height, 0,
           imgs[i].data, TRUE)]
IcnsDescriptors(imgs) ==
  [i \in 1..Len(imgs) |->
     Image({"size", "data"}, 0, 0, imgs[i].size, imgs[i].data, TRUE)]

\* ------------------------------------------------------------- state machine
Init ==
  /\ maxLength \in MaxLengths
  /\ pc = "idle"
  /\ fmt = "none"
  /\ round = 0
  /\ images = <<>>
  /\ encoded = NoResult
  /\ buffer = <<>>
  /\ totalSize = 0
  /\ offset = 0
  /\ parsed = <<>>
  /\ iters = 0
  /\ decoded = NoDecoded

\* the decoder's result is ready to be encoded again
CanReencode(f) ==
  pc = "decoded" /\ fmt = f /\ round = 0 /\ encoded.err = "none"
    /\ decoded.err = "none"

\* an encoder's output is ready to be decoded
CanDecode(f) == pc = "encoded" /\ fmt = f /\ round = 0 /\ encoded.err = "none"

\* compileIco(images)
CompileIco ==
  /\ pc = "idle" \/ CanReencode("ico")
  /\ \E imgs \in IF pc = "idle" THEN IcoInputs
                 ELSE {IcoDescriptors(decoded.images)} :
       /\ images' = IF pc = "idle" THEN imgs ELSE images
       /\ encoded' = compileIco(imgs, maxLength)
  /\ round' = IF pc = "idle" THEN 0 ELSE 1
  /\ fmt' = "ico"
  /\ pc' = "encoded"
  /\ UNCHANGED <<maxLength, buffer, totalSize, offset, parsed, iters, decoded>>

\* compileIcns(images)
CompileIcns ==
  /\ pc = "idle" \/ CanReencode("icns")
  /\ \E imgs \in IF pc = "idle" THEN IcnsInputs
                 ELSE {IcnsDescriptors(decoded.images)} :
       /\ images' = IF pc = "idle" THEN imgs ELSE images
       /\ encoded' = compileIcns(imgs, maxLength)
  /\ round' = IF pc = "idle" THEN 0 ELSE 1
  /\ fmt' = "icns"
  /\ pc' = "encoded"
  /\ UNCHANGED <<maxLength, buffer, totalSize, offset, parsed, iters, decoded>>

\* parseIco(buffer)
ParseIco ==
  /\ pc = "idle" \/ CanDecode("ico")
  /\ \E b \in IF pc = "idle" THEN IcoBuffers ELSE {encoded.buf} :
       /\ buffer' = b
       /\ decoded' = parseIco(b)
  /\ fmt' = "ico"
  /\ pc' = "decoded"
  /\ UNCHANGED <<maxLength, round, images, encoded, totalSize, offset, parsed,
                 iters>>

\* parseIcns(buffer), up to the first test of the loop condition
ParseIcnsBegin ==
  /\ pc = "idle" \/ CanDecode("icns")
  /\ \E b \in IF pc = "idle" THEN IcnsBuffers ELSE {encoded.buf} :
       /\ buffer' = b
       /\ IF IcnsHeaderError(b) # "none"
          THEN /\ decoded' = DecErr(IcnsHeaderError(b))
               /\ pc' = "decoded"
               /\ UNCHANGED <<totalSize, offset>>
          ELSE /\ totalSize' = readUInt32BE(b, 4)
               /\ offset' = 8
               /\ pc' = "parsing"
               /\ UNCHANGED decoded
  /\ fmt' = "icns"
  /\ parsed' = <<>>
  /\ iters' = 0
  /\ UNCHANGED <<maxLength, round, images, encoded>>

\* one iteration of `while (offset < totalSize)`
ParseIcnsChunk ==
  /\ pc = "parsing"
  /\ offset < totalSize
  /\ iters' = iters + 1
  /\ IF IcnsChunkError(buffer, offset) # "none"
     THEN /\ decoded' = DecErr(IcnsChunkError(buffer, offset))
          /\ pc' = "decoded"
          /\ UNCHANGED <<offset, parsed>>
     ELSE /\ parsed' = Append(parsed, IcnsImage(buffer, offset))
          /\ offset' = offset + readUInt32BE(buffer, offset + 4)
          /\ UNCHANGED <<pc, decoded>>
  /\ UNCHANGED <<maxLength, fmt, round, images, encoded, buffer, totalSize>>

\* the loop condition fails: parseIcns returns its result
ParseIcnsReturn ==
  /\ pc = "parsing"
  /\ ~(offset < totalSize)
  /\ decoded' = DecOk(parsed)
  /\ pc' = "decoded"
  /\ UNCHANGED <<maxLength, fmt, round, images, encoded, buffer, totalSize,
                 offset, parsed, iters>>

Next ==
  \/ CompileIco
  \/ CompileIcns
  \/ ParseIco
  \/ ParseIcnsBegin
  \/ ParseIcnsChunk
  \/ ParseIcnsReturn

Spec == Init /\ [][Next]_vars

\* parseIcns alone, on the hand-made files; once called it runs to completion:
\* the loop is synchronous code, so each of its steps is taken when enabled
NextParseIcns ==
  \/ ParseIcnsBegin
  \/ ParseIcnsChunk
  \/ ParseIcnsReturn

FairSpec ==
  /\ Init
  /\ [][NextParseIcns]_vars
  /\ WF_vars(ParseIcnsChunk)
  /\ WF_vars(ParseIcnsReturn)

\* ===================================================================== claims
\* the image at index i passes the validator for the required fields req
PassesValidation(img, req) == req \subseteq img.has /\ img.isBuffer

\* images is the input of a first call of the encoder of format f
EncoderCalled(f) ==
  fmt = f /\ round = 0 /\ pc \in {"encoded", "parsing", "decoded"}
    /\ encoded.err # "pending"

\* the decoder has returned or thrown on the output of that call
RoundTripDone(f) == EncoderCalled(f) /\ pc = "decoded"

IcoFields == {"width", "height", "data"}
IcnsFields == {"size", "data"}

\* a non-empty list of ICO descriptors with every width and height in D
IcoListIn(D) ==
  /\ Len(images) > 0
  /\ \A i \in 1..Len(images) :
       /\ PassesValidation(images[i], IcoFields)
       /\ images[i].width \in D
       /\ images[i].height \in D

\* index of the first input image with the width and height of image i
FirstSameDims(i) ==
  Min({j \in 1..Len(images) :
         images[j].width = images[i].width /\ images[j].height = images[i].height})

C1_InfoRoundTrips ==
  /\ decoded.err = "none"
  /\ getInfoIco(decoded.images) =
       [i \in 1..Len(images) |->
          [width |-> images[i].width, height |-> images[i].height, bpp |-> 32,
           dataSize |-> Len(images[i].data)]]

\* C1 as stated: with widths and heights in 1..255 the encoder succeeds, the
\* decoder succeeds on its output, getInfo() gives the inputs' tuples in
\* order, and getImage(width, height) of EVERY input image is that image's
\* own data, duplicates of a width/height pair included.
C1_RoundTripOriginal ==
  /\ EncoderCalled("ico") /\ IcoListIn(1..255) => encoded.err = "none"
  /\ RoundTripDone("ico") /\ IcoListIn(1..255) =>
       /\ C1_InfoRoundTrips
       /\ \A i \in 1..Len(images) :
            getImageIco(decoded.images, images[i].width, images[i].height)
              = images[i].data

\* the list is one whose numbers the file's fields hold on this runtime: at
\* most 65535 images (the 16-bit count), an encoded size of at most the
\* runtime's maximum Buffer length, and every data length and every data
\* offset at most 2^32 - 1 (the 32-bit fields of a directory entry)
IcoFits ==
  /\ Len(images) <= 65535
  /\ AllocInRange(IcoTotalSize(images), maxLength)
  /\ \A i \in 1..Len(images) :
       /\ UInt32InRange(Len(images[i].data))
       /\ UInt32InRange(IcoDataOffset(images, i))

\* C1 amended: as above for lists of at most 65535 images whose encoded size
\* is at most the runtime's maximum Buffer length and whose data lengths and
\* data offsets are all at most 2^32 - 1, but
\* getImage(width, height) returns the data of the FIRST input image with
\* that width and height (the image's own data when no earlier image shares
\* its width/height pair).
C1_RoundTrip ==
  /\ EncoderCalled("ico") /\ IcoListIn(1..255) /\ IcoFits =>
       encoded.err = "none"
  /\ RoundTripDone("ico") /\ IcoListIn(1..255) /\ IcoFits =>
       /\ C1_InfoRoundTrips
       /\ \A i \in 1..Len(images) :
            getImageIco(decoded.images, images[i].width, images[i].height)
              = images[FirstSameDims(i)].data

\* two images of the same dimensions and different data went through the
\* round trip
C1_Witness ==
  /\ RoundTripDone("ico") /\ IcoListIn(1..255)
  /\ decoded.err = "none"
  /\ Len(images) = 2
  /\ FirstSameDims(2) = 1
  /\ images[1].data # images[2].data
  /\ Len(images[1].data) > 0

\* the size -> tag table of the data model
TableSizes == {16, 32, 64, 128, 256, 512, 1024}
TableTag(size) ==
  CASE size = 16 -> <<105, 99, 112, 51>>
    [] size = 32 -> <<105, 99, 112, 52>>
    [] size = 64 -> <<105, 99, 112, 54>>
    [] size = 128 -> <<105, 99, 48, 55>>
    [] size = 256 -> <<105, 99, 48, 56>>
    [] size = 512 -> <<105, 99, 48, 57>>
    [] size = 1024 -> <<105, 99, 49, 48>>

IcnsListValid ==
  /\ Len(images) > 0
  /\ \A i \in 1..Len(images) : PassesValidation(images[i], IcnsFields)

Survives(img) == img.size \in TableSizes /\ img.data # <<>>
\* indices of the surviving images, in input order
RECURSIVE SurvivorsFrom(_)
SurvivorsFrom(i) ==
  IF i > Len(images) THEN <<>>
  ELSE (IF Survives(images[i]) THEN <<i>> ELSE <<>>) \o SurvivorsFrom(i + 1)

\* C2 as stated: on a list that passes validation encodeIcns fails with NoValidImages
\* exactly when no image has a table size and non-empty data; otherwise it
\* succeeds and decodeIcns of the output has one chunk per surviving image,
\* in order, with the table's tag, the image's size and the image's data.
C2_FilterRoundTrip ==
  /\ EncoderCalled("icns") /\ IcnsListValid =>
       /\ encoded.err = "NoValidImages" <=> SurvivorsFrom(1) = <<>>
       /\ encoded.err = "none" <=> SurvivorsFrom(1) # <<>>
  /\ RoundTripDone("icns") /\ IcnsListValid /\ encoded.err = "none" =>
       LET surv == SurvivorsFrom(1) IN
       /\ decoded.err = "none"
       /\ Len(decoded.images) = Len(surv)
       /\ \A k \in 1..Len(surv) :
            /\ decoded.images[k].type = TableTag(images[surv[k]].size)
            /\ decoded.images[k].size = images[surv[k]].size
            /\ decoded.images[k].data = images[surv[k]].data

\* byte at 0-based offset off of the encoder's output
OutByte(off) == encoded.buf[off + 1]
\* the byte the claim gives for dimension d
C3_Byte(d) == IF d \in {256, 512} THEN 0 ELSE d

C3_EntriesWritten ==
  /\ encoded.err = "none"
  /\ \A i \in 1..Len(images) :
       /\ OutByte(6 + 16 * (i - 1)) = C3_Byte(images[i].width)
       /\ OutByte(6 + 16 * (i - 1) + 1) = C3_Byte(images[i].height)

\* decodeIco maps an on-disk 0 to 256 and every other byte to itself
C3_DecoderMaps ==
  pc = "decoded" /\ fmt = "ico" /\ decoded.err = "none" =>
    \A i \in 1..Len(decoded.images) :
      LET wb == buffer[6 + 16 * (i - 1) + 1]
          hb == buffer[6 + 16 * (i - 1) + 2]
      IN /\ decoded.images[i].width = (IF wb = 0 THEN 256 ELSE wb)
         /\ decoded.images[i].height = (IF hb = 0 THEN 256 ELSE hb)

\* C3 as stated: for EVERY width and height in 1..512 encodeIco succeeds and
\* writes 0 for 256 and 512 and the dimension itself otherwise.
C3_DimensionBytesOriginal ==
  EncoderCalled("ico") /\ IcoListIn(1..512) => C3_EntriesWritten

\* C3 amended: on a list of at most 65535 images whose encoded size is at
\* most the runtime's maximum Buffer length and whose data lengths and data
\* offsets are all at most 2^32 - 1, encodeIco succeeds and writes those
\* bytes when every width and height is in 1..255 or is 256 or 512; on any
\* list with every width and height in 1..512 and one of them in 257..511 it
\* fails with a range error and writes nothing. decodeIco maps byte 0 to
\* 256 and every other byte to itself, so 256 and 512 decode to 256 and
\* 1..255 decode to themselves.
C3_DimensionBytes ==
  /\ EncoderCalled("ico") /\ IcoListIn((1..255) \cup {256, 512})
       /\ IcoFits => C3_EntriesWritten
  /\ EncoderCalled("ico") /\ IcoListIn(1..512)
       /\ ~IcoListIn((1..255) \cup {256, 512}) =>
         encoded.err = "RangeError" /\ encoded.buf = <<>>
  /\ C3_DecoderMaps
  /\ RoundTripDone("ico") /\ IcoListIn((1..255) \cup {256, 512}) =>
       /\ decoded.err = "none"
       /\ \A i \in 1..Len(images) :
            /\ decoded.images[i].width =
                 (IF images[i].width = 512 THEN 256 ELSE images[i].width)
            /\ decoded.images[i].height =
                 (IF images[i].height = 512 THEN 256 ELSE images[i].height)

\* a width of 512 was written as 0 and decoded as 256
C3_Witness ==
  /\ RoundTripDone("ico") /\ IcoListIn(1..512)
  /\ decoded.err = "none"
  /\ images[1].width = 512
  /\ buffer[7] = 0
  /\ decoded.images[1].width = 256

\* image i (1-based) of the input has no data property
LacksData(i) == "data" \notin images[i].has

\* C4 as stated: either encoder, given a list whose image at index i has no
\* data field, fails with MissingField naming an index without data and the
\* field data, and produces no output.
C4_MissingDataOriginal ==
  \A f \in {"ico", "icns"} :
    EncoderCalled(f) /\ (\E i \in 1..Len(images) : LacksData(i)) =>
      /\ encoded.err = "MissingField"
      /\ encoded.field = "data"
      /\ encoded.index + 1 \in 1..Len(images) /\ LacksData(encoded.index + 1)
      /\ encoded.buf = <<>>

Required(f) == IF f = "ico" THEN IcoFields ELSE IcnsFields

\* C4 amended: when the image at index i has no data field but has every
\* other field the encoder requires, and every earlier image passes
\* validation, the encoder fails with MissingField(i, data) and no output;
\* [{width: 64, height: 64}] fails with (0, data) in encodeIco and with
\* (0, size) in encodeIcns, which checks size first.
C4_MissingData ==
  /\ \A f \in {"ico", "icns"} :
       EncoderCalled(f) =>
         \A i \in 1..Len(images) :
           /\ LacksData(i)
           /\ Required(f) \ {"data"} \subseteq images[i].has
           /\ \A j \in 1..(i - 1) : PassesValidation(images[j], Required(f))
           => encoded = [err |-> "MissingField", index |-> i - 1,
                         field |-> "data", buf |-> <<>>]
  /\ \A f \in {"ico", "icns"} :
       EncoderCalled(f) /\ Len(images) = 1
         /\ images[1].has = {"width", "height"} =>
           encoded = [err |-> "MissingField", index |-> 0,
                      field |-> (IF f = "ico" THEN "data" ELSE "size"),
                      buf |-> <<>>]

\* encodeIcns met a second image without data after a valid first one
C4_Witness ==
  /\ EncoderCalled("icns")
  /\ Len(images) = 2
  /\ PassesValidation(images[1], IcnsFields)
  /\ images[2].has = {"size"}
  /\ encoded.err = "MissingField" /\ encoded.index = 1

\* little- and big-endian fields of the decoded buffer, at 0-based offsets
U16LEAt(off) == buffer[off + 1] + 256 * buffer[off + 2]
U32LEAt(off) ==
  buffer[off + 1] + 256 * buffer[off + 2] + 65536 * buffer[off + 3]
    + 16777216 * buffer[off + 4]
U32BEAt(off) ==
  16777216 * buffer[off + 1] + 65536 * buffer[off + 2] + 256 * buffer[off + 3]
    + buffer[off + 4]

\* the first failing check of the ICO decoder, in the order the claim gives
C5_Expected ==
  IF Len(buffer) < 6 THEN "HeaderTooSmall"
  ELSE IF U16LEAt(0) # 0 THEN "InvalidReservedField"
  ELSE IF U16LEAt(2) # 1 THEN "InvalidImageType"
  ELSE IF U16LEAt(4) = 0 THEN "NoImages"
  ELSE IF Len(buffer) < 6 + U16LEAt(4) * 16 THEN "DirectoryTruncated"
  ELSE IF \E k \in 0..(U16LEAt(4) - 1) :
            U32LEAt(6 + 16 * k + 12) + U32LEAt(6 + 16 * k + 8) > Len(buffer)
    THEN "ImageDataOutOfBounds"
  ELSE "none"

\* C5: decodeIco reports exactly the first failing check in the order
\* HeaderTooSmall, InvalidReservedField, InvalidImageType, NoImages,
\* DirectoryTruncated, ImageDataOutOfBounds, and succeeds when none fails;
\* then there is one image per directory entry, in directory order, and each
\* data view is the range [dataOffset, dataOffset + dataSize) of the buffer.
C5_FailFast ==
  pc = "decoded" /\ fmt = "ico" =>
    /\ decoded.err = C5_Expected
    /\ decoded.err # "none" => decoded.images = <<>>
    /\ decoded.err = "none" =>
         /\ Len(decoded.images) = U16LEAt(4)
         /\ \A i \in 1..Len(decoded.images) :
              LET start == U32LEAt(6 + 16 * (i - 1) + 12)
                  size == U32LEAt(6 + 16 * (i - 1) + 8)
              IN /\ decoded.images[i].dataStart = start
                 /\ decoded.images[i].dataEnd = start + size
                 /\ start + size <= Len(buffer)
                 /\ decoded.images[i].dataSize = size
                 /\ decoded.images[i].data =
                      [k \in 1..size |-> buffer[start + k]]

\* a file with a bad reserved field AND a bad type was rejected for the
\* reserved field
C5_Witness ==
  /\ pc = "decoded" /\ fmt = "ico"
  /\ Len(buffer) >= 6
  /\ U16LEAt(0) # 0 /\ U16LEAt(2) # 1
  /\ decoded.err = "InvalidReservedField"

\* the outcome of the chunk loop from offset off, as the claim gives it
RECURSIVE C6_ChunkOutcome(_)
C6_ChunkOutcome(off) ==
  IF ~(off < U32BEAt(4)) THEN "none"
  ELSE IF Len(buffer) - off < 8 THEN "ChunkHeaderTruncated"
  ELSE IF U32BEAt(off + 4) < 8 THEN "InvalidChunkLength"
  ELSE IF off + U32BEAt(off + 4) > Len(buffer) THEN "ChunkDataOutOfBounds"
  ELSE C6_ChunkOutcome(off + U32BEAt(off + 4))

C6_Expected ==
  IF Len(buffer) < 8 THEN "HeaderTooSmall"
  ELSE IF SubSeq(buffer, 1, 4) # <<105, 99, 110, 115>> THEN "InvalidMagic"
  ELSE IF U32BEAt(4) > Len(buffer) THEN "DeclaredSizeExceedsBuffer"
  ELSE C6_ChunkOutcome(8)

KnownTags ==
  {TableTag(size) : size \in TableSizes}

\* C6: decodeIcns fails with HeaderTooSmall, InvalidMagic (the first four
\* bytes are not "icns"), DeclaredSizeExceedsBuffer, ChunkHeaderTruncated,
\* InvalidChunkLength or ChunkDataOutOfBounds, whichever check fails first;
\* a failure leaves no partial result; on success every payload view is
\* [offset + 8, offset + chunkLength) inside the buffer and a tag that is
\* not in the table has size null.
C6_DecoderErrors ==
  pc = "decoded" /\ fmt = "icns" =>
    /\ decoded.err = C6_Expected
    /\ decoded.err # "none" => decoded.images = <<>>
    /\ decoded.err = "none" =>
         \A i \in 1..Len(decoded.images) :
           LET img == decoded.images[i] IN
           /\ 16 <= img.dataStart /\ img.dataStart <= img.dataEnd
           /\ img.dataEnd <= Len(buffer)
           /\ img.dataEnd = (img.dataStart - 8) + U32BEAt(img.dataStart - 4)
           /\ img.data =
                [k \in 1..(img.dataEnd - img.dataStart) |->
                   buffer[img.dataStart + k]]
           /\ SubSeq(buffer, img.dataStart - 7, img.dataStart - 4)
                \notin KnownTags => img.size = null

\* the input of the encoder call whose result is in `encoded`
EncoderInput ==
  IF round = 0 THEN images
  ELSE IF fmt = "ico" THEN IcoDescriptors(decoded.images)
  ELSE IcnsDescriptors(decoded.images)

\* big-endian u32 at 0-based offset off of the encoder's output
OutU32BE(off) ==
  16777216 * OutByte(off) + 65536 * OutByte(off + 1) + 256 * OutByte(off + 2)
    + OutByte(off + 3)

\* payloads of the images encodeIcns keeps, in order
RECURSIVE KeptPayloads(_)
KeptPayloads(imgs) ==
  IF imgs = <<>> THEN <<>>
  ELSE (IF Survives(Head(imgs)) THEN <<Head(imgs).data>> ELSE <<>>)
         \o KeptPayloads(Tail(imgs))

\* offset of chunk k in the output: 8 + the lengths of the chunks before it
C7_ChunkOffset(payloads, k) ==
  8 + SumLen([j \in 1..(k - 1) |-> payloads[j]]) + 8 * (k - 1)

\* C7: in every buffer encodeIcns returns, each chunk's big-endian length
\* field is its payload length + 8, and the u32 at offset 4 is 8 + the sum
\* of the chunk lengths, which is the length of the buffer.
C7_SizeInvariant ==
  pc = "encoded" /\ fmt = "icns" /\ encoded.err = "none" =>
    LET payloads == KeptPayloads(EncoderInput) IN
    /\ \A k \in 1..Len(payloads) :
         /\ OutU32BE(C7_ChunkOffset(payloads, k) + 4) = Len(payloads[k]) + 8
         /\ SubSeq(encoded.buf, C7_ChunkOffset(payloads, k) + 9,
                   C7_ChunkOffset(payloads, k) + 8 + Len(payloads[k]))
              = payloads[k]
    /\ OutU32BE(4) = 8 + SumLen(payloads) + 8 * Len(payloads)
    /\ OutU32BE(4) = Len(encoded.buf)

\* encodeIcns returned two chunks with payloads of different lengths
C7_Witness ==
  /\ pc = "encoded" /\ fmt = "icns" /\ round = 0 /\ encoded.err = "none"
  /\ Len(images) = 2
  /\ Survives(images[1]) /\ Survives(images[2])
  /\ Len(images[1].data) = 2 /\ Len(images[2].data) = 1

\* C8: encoding again what the decoder exposes of an encoder's output B
\* (width/height or size, and the payload views, in parse order) gives a
\* buffer byte-identical to B, also when a width or height was 256 or 512.
C8_Idempotent ==
  pc = "encoded" /\ round = 1 => encoded.err = "none" /\ encoded.buf = buffer

\* an ICO file made from a 512-wide image was decoded and encoded again
C8_Witness ==
  /\ pc = "encoded" /\ round = 1 /\ fmt = "ico"
  /\ Len(images) = 2
  /\ images[1].width = 512
  /\ images[1].data # <<>>
  /\ decoded.images[1].width = 256

\* decodeIcns has returned a result
IcnsParsed == pc = "decoded" /\ fmt = "icns" /\ decoded.err = "none"

\* C9 as stated: whenever decodeIcns succeeds, the offset after the last
\* chunk equals the declared total size and no payload view contains a byte
\* at or beyond the declared total size.
C9_StopsAtDeclaredSizeOriginal ==
  IcnsParsed =>
    /\ offset = totalSize
    /\ \A i \in 1..Len(decoded.images) : decoded.images[i].dataEnd <= totalSize

\* C9 amended: whenever decodeIcns succeeds, the offset after the last chunk
\* is at least the declared total size (and is 8 when no chunk was parsed),
\* is at most the buffer length, and the parsed chunks exactly tile
\* [8, offset); every chunk starts before the declared total size, but the
\* last one may end beyond it. On a buffer produced by encodeIcns the offset
\* equals the declared total size.
C9_StopsAtDeclaredSize ==
  IcnsParsed =>
    LET n == Len(decoded.images) IN
    /\ offset >= totalSize
    /\ offset <= Len(buffer)
    /\ n = 0 => offset = 8
    /\ n > 0 => /\ decoded.images[1].dataStart = 16
                /\ decoded.images[n].dataEnd = offset
    /\ \A i \in 1..n :
         /\ decoded.images[i].dataStart - 8 < totalSize
         /\ i < n => decoded.images[i + 1].dataStart
                       = decoded.images[i].dataEnd + 8
    /\ encoded.err = "none" => offset = totalSize /\ totalSize = Len(buffer)

\* a successful parse whose last chunk ends beyond the declared total size
C9_Witness ==
  /\ IcnsParsed
  /\ Len(decoded.images) = 2
  /\ offset > totalSize
  /\ decoded.images[2].dataEnd > totalSize

\* (declared total size - 8) / 8 rounded up
C10_Bound == (totalSize - 8 + 7) \div 8

\* the header checks passed: the loop is running or has ended
C10_InLoop ==
  /\ fmt = "icns"
  /\ pc \in {"parsing", "decoded"}
  /\ decoded.err \notin
       {"HeaderTooSmall", "InvalidMagic", "DeclaredSizeExceedsBuffer"}

\* C10 as stated: the number of iterations of the chunk loop is at most
\* (declared total size - 8) / 8 rounded up.
C10_IterationsOriginal ==
  C10_InLoop => iters <= C10_Bound

\* C10 amended: the chunk loop of decodeIcns terminates, by returning a
\* result or raising an error; the offset increases by at least 8 on every
\* iteration that does not fail; the number of iterations is at most
\* (declared total size - 8) / 8 rounded up when the declared total size is
\* at least 8, and is 0 when it is smaller.
C10_Terminates ==
  /\ (pc = "parsing") ~> (pc = "decoded")
  /\ [][pc = "parsing" /\ pc' = "parsing" => offset' >= offset + 8]_vars
  /\ [](C10_InLoop =>
          iters <= (IF totalSize >= 8 THEN C10_Bound ELSE 0))

\* the loop ran twice, the most the declared size allows, and returned
C10_Witness ==
  /\ IcnsParsed
  /\ iters = 2
  /\ C10_Bound = 2

====
